---- MODULE Spec2Model ----
(***************************************************************************)
(* Model of apps/mock-exchange/app.py: the mock-exchange HTTP service.     *)
(*                                                                         *)
(* State: the startup configuration (CONFIG), the process environment      *)
(* (required settings, database settings), the database (reachable or      *)
(* not, and its orders table), the identifiers uuid4 has handed out, and,  *)
(* for each request being served, the handler's position, its parameters,  *)
(* its local variables, its open transaction and the response it gave.     *)
(*                                                                         *)
(* Strings that the code normalises (symbol, side) are sequences of        *)
(* one-character strings, so that upper() and lower() are computed.        *)
(* A float is a record [nan, v]: v is the value (in whole units) and nan   *)
(* marks IEEE not-a-number, whose every ordered comparison is false.       *)
(***************************************************************************)
EXTENDS Integers, Sequences, FiniteSets, TLC

\* ------------------------------------------------------------------ bounds
MaxIds == 2          \* identifiers uuid4 can hand out in one run

Tasks == {"t1", "t2"}
UuidPool == 1..MaxIds
NonexistentId == 0

\* ------------------------------------------------------------- characters
LowerLetters == <<"b", "c", "e", "h", "l", "o", "p", "r", "s", "t", "u", "x", "y">>
UpperLetters == <<"B", "C", "E", "H", "L", "O", "P", "R", "S", "T", "U", "X", "Y">>

\* the case mappings of the letters, as tables
UpperTable ==
    [c \in {LowerLetters[i] : i \in 1..Len(LowerLetters)} |->
        UpperLetters[CHOOSE i \in 1..Len(LowerLetters) : LowerLetters[i] = c]]
LowerTable ==
    [c \in {UpperLetters[i] : i \in 1..Len(UpperLetters)} |->
        LowerLetters[CHOOSE i \in 1..Len(UpperLetters) : UpperLetters[i] = c]]

\* str.upper() and str.lower(), one character: a cased letter is mapped,
\* any other character is kept
UpperChar(c) == IF c \in DOMAIN UpperTable THEN UpperTable[c] ELSE c
LowerChar(c) == IF c \in DOMAIN LowerTable THEN LowerTable[c] ELSE c

Upper(s) == [i \in 1..Len(s) |-> UpperChar(s[i])]
Lower(s) == [i \in 1..Len(s) |-> LowerChar(s[i])]

BTC == <<"B", "T", "C">>
ETH == <<"E", "T", "H">>
buy == <<"b", "u", "y">>
sell == <<"s", "e", "l", "l">>

\* ----------------------------------------------------------------- floats
F(n) == [nan |-> FALSE, v |-> n]
NaN == [nan |-> TRUE, v |-> 0]

\* the float comparisons of the language: false whenever an operand is NaN
FloatLe(a, b) == ~a.nan /\ ~b.nan /\ a.v <= b.v
FloatGt(a, b) == ~a.nan /\ ~b.nan /\ a.v > b.v
FloatEq(a, b) == ~a.nan /\ ~b.nan /\ a.v = b.v

\* ----------------------------------------------------- inputs of a request
SymbolInputs == {<<"b", "t", "c">>, ETH, <<"x", "r", "p">>}
SideInputs == {<<"B", "U", "Y">>, sell, <<"h", "o", "l", "d">>}
QtyInputs == {F(-1), F(0), F(1), NaN}
IdInputs == UuidPool \cup {NonexistentId}
OrderInputs ==
    {<<<<"b", "t", "c">>, <<"B", "U", "Y">>, F(1)>>,
     <<ETH, sell, F(2)>>,
     <<<<"x", "r", "p">>, sell, F(1)>>}
PriceInputs == {<<"b", "t", "c">>}

VARIABLES
    CONFIG,      \* the global CONFIG: "None" or "loaded"
    boot,        \* the process: "init", "up" (startup done) or "crashed"
    envRequired, \* the REQUIRED_ENV_VARS are all set
    envDb,       \* the DB_REQUIRED_VARS are all set
    dbUp,        \* the database answers
    orders,      \* the committed rows of the orders table
    uuids,       \* the identifiers uuid4 has returned
    pc,          \* per task: where its handler stands
    req,         \* per task: the request it serves or served last
    local,       \* per task: the handler's local variables
    txn,         \* per task: the rows of its open transaction
    resp         \* per task: the response it gave last

vars == <<CONFIG, boot, envRequired, envDb, dbUp, orders, uuids, pc, req, local, txn, resp>>


\* -------------------------------------------------------------- responses
NoBody == [empty |-> TRUE]
NoResp == [status |-> 0, detail |-> "", error |-> "", body |-> NoBody]
NoReq == [op |-> "none"]
NoLocal == [empty |-> TRUE]

\* raise HTTPException(status_code=status, detail=detail)
HttpException(status, detail) ==
    [status |-> status, detail |-> detail, error |-> "", body |-> NoBody]

\* a handler returning a value: 200 with that value as the body
Returns(body) == [status |-> 200, detail |-> "", error |-> "", body |-> body]

\* any other exception reaches unhandled_exception: 500 naming its type
unhandled_exception(name) ==
    [status |-> 500, detail |-> "", error |-> name, body |-> NoBody]

\* what psycopg raises when the server cannot be reached or stops answering
OperationalError == "OperationalError"

\* -------------------------------------------------------- database helpers
db_dsn_or_empty(dbVarsSet) == IF ~dbVarsSet THEN "" ELSE "dsn"

\* a variant without the check of the settings: the connection to an empty
\* DSN fails and is reported as any other failure
db_ping_unchecked_dsn(dsn, connected, answered) ==
    IF dsn # "" /\ connected /\ answered THEN <<TRUE, "ok">>
    ELSE <<FALSE, "db_unreachable:" \o OperationalError>>

\* db_ping: connected = psycopg.connect succeeded, answered = SELECT 1 did
db_ping(dsn, connected, answered) ==
    IF dsn = "" THEN <<FALSE, "db_config_missing">>
    ELSE IF connected /\ answered THEN <<TRUE, "ok">>
    ELSE <<FALSE, "db_unreachable:" \o OperationalError>>

\* db_connect: a connection (ok) or the HTTPException it raises
db_connect(dsn, up) ==
    IF dsn = "" THEN [ok |-> FALSE, raised |-> HttpException(503, "db_config_missing")]
    ELSE IF up THEN [ok |-> TRUE, raised |-> NoResp]
    ELSE [ok |-> FALSE, raised |-> HttpException(503, "db_unreachable")]

\* ---------------------------------------------------------------- startup
load_config_or_die(requiredSet) == IF requiredSet THEN "loaded" ELSE "RuntimeError"

Init ==
    /\ CONFIG = "None"
    /\ boot = "init"
    /\ envRequired \in BOOLEAN
    /\ envDb \in BOOLEAN
    /\ dbUp \in BOOLEAN
    /\ orders = {}
    /\ uuids = {}
    /\ pc = [p \in Tasks |-> "idle"]
    /\ req = [p \in Tasks |-> NoReq]
    /\ local = [p \in Tasks |-> NoLocal]
    /\ txn = [p \in Tasks |-> {}]
    /\ resp = [p \in Tasks |-> NoResp]

Serving == boot # "crashed"

\* a handler that ends: its response is kept, its locals are gone
Respond(p, r, response) ==
    /\ pc' = [pc EXCEPT ![p] = "idle"]
    /\ req' = [req EXCEPT ![p] = r]
    /\ resp' = [resp EXCEPT ![p] = response]
    /\ local' = [local EXCEPT ![p] = NoLocal]
    /\ txn' = [txn EXCEPT ![p] = {}]

\* a handler that goes on to its next step
Goto(p, r, label, l, rows) ==
    /\ pc' = [pc EXCEPT ![p] = label]
    /\ req' = [req EXCEPT ![p] = r]
    /\ resp' = [resp EXCEPT ![p] = NoResp]
    /\ local' = [local EXCEPT ![p] = l]
    /\ txn' = [txn EXCEPT ![p] = rows]

startup ==
    /\ boot = "init"
    /\ LET c == load_config_or_die(envRequired) IN
         IF c = "RuntimeError"
         THEN boot' = "crashed" /\ UNCHANGED CONFIG
         ELSE boot' = "up" /\ CONFIG' = c
    /\ UNCHANGED <<envRequired, envDb, dbUp, orders, uuids, pc, req, local, txn, resp>>

\* the environment: the database stops answering, or answers again
DbFails ==
    /\ dbUp /\ dbUp' = FALSE
    /\ UNCHANGED <<CONFIG, boot, envRequired, envDb, orders, uuids, pc, req, local, txn, resp>>

DbRecovers ==
    /\ ~dbUp /\ dbUp' = TRUE
    /\ UNCHANGED <<CONFIG, boot, envRequired, envDb, orders, uuids, pc, req, local, txn, resp>>

\* --------------------------------------------------------------- /health
health(p) ==
    /\ Serving /\ pc[p] = "idle"
    /\ Respond(p, [op |-> "health"], Returns([ok |-> TRUE]))
    /\ UNCHANGED <<CONFIG, boot, envRequired, envDb, dbUp, orders, uuids>>

\* ---------------------------------------------------------------- /ready
ReadyBody == [ready |-> TRUE, config_loaded |-> TRUE, db |-> TRUE]

\* a variant that drops the check of db_ping's verdict
ReadyResponseUnchecked(ping) == Returns(ReadyBody)

\* the rest of ready() once db_ping has returned (ok, reason)
ReadyResponse(ping) ==
    IF ~ping[1] THEN HttpException(503, ping[2]) ELSE Returns(ReadyBody)

ready(p) ==
    /\ Serving /\ pc[p] = "idle"
    /\ LET r == [op |-> "ready"]
           dsn == db_dsn_or_empty(envDb) IN
         IF CONFIG = "None"
         THEN Respond(p, r, HttpException(503, "config_not_loaded"))
         ELSE IF dsn = "" \/ ~dbUp
         THEN Respond(p, r, ReadyResponse(db_ping(dsn, dbUp, FALSE)))
         ELSE Goto(p, r, "rd_query", NoLocal, {})
    /\ UNCHANGED <<CONFIG, boot, envRequired, envDb, dbUp, orders, uuids>>

\* db_ping's SELECT 1 on the connection it opened
ReadyQuery(p) ==
    /\ Serving /\ pc[p] = "rd_query"
    /\ Respond(p, req[p], ReadyResponse(db_ping(db_dsn_or_empty(envDb), TRUE, dbUp)))
    /\ UNCHANGED <<CONFIG, boot, envRequired, envDb, dbUp, orders, uuids>>

\* -------------------------------------------------------------- /version
version(p) ==
    /\ Serving /\ pc[p] = "idle"
    /\ Respond(p, [op |-> "version"],
               IF CONFIG = "None" THEN HttpException(503, "config_not_loaded")
               ELSE Returns([config |-> CONFIG]))
    /\ UNCHANGED <<CONFIG, boot, envRequired, envDb, dbUp, orders, uuids>>

\* ---------------------------------------------------------------- /price
PriceBTC == 52000
PriceETH == 3100
prices == [s \in {BTC, ETH} |-> IF s = BTC THEN F(PriceBTC) ELSE F(PriceETH)]

PriceResponse(symbolIn) ==
    LET symbol == Upper(symbolIn) IN
    IF symbol \notin DOMAIN prices THEN HttpException(400, "unsupported_symbol")
    ELSE Returns([symbol |-> symbol, price |-> prices[symbol]])

price(p, symbolIn) ==
    /\ Serving /\ pc[p] = "idle"
    /\ Respond(p, [op |-> "price", symbol |-> symbolIn], PriceResponse(symbolIn))
    /\ UNCHANGED <<CONFIG, boot, envRequired, envDb, dbUp, orders, uuids>>

\* ---------------------------------------------------------------- /order
\* a variant that checks the quantity first
ValidationDetailQtyFirst(symbol, side, qty) ==
    IF FloatLe(qty, F(0)) THEN "invalid_qty"
    ELSE IF symbol \notin {BTC, ETH} THEN "unsupported_symbol"
    ELSE IF side \notin {buy, sell} THEN "invalid_side"
    ELSE ""

\* the three checks of create_order on the normalised symbol and side:
\* the detail of the HTTPException raised, or "" when none is
ValidationDetail(symbol, side, qty) ==
    IF symbol \notin {BTC, ETH} THEN "unsupported_symbol"
    ELSE IF side \notin {buy, sell} THEN "invalid_side"
    ELSE IF FloatLe(qty, F(0)) THEN "invalid_qty"
    ELSE ""

\* a variant whose identifiers can repeat
uuid4Repeating(issued) == UuidPool

\* uuid.uuid4(): a random 128-bit identifier, taken never to repeat; the
\* identifiers being opaque, the least one not yet issued stands for it
uuid4(issued) == {id \in UuidPool \ issued : \A other \in UuidPool \ issued : id <= other}

\* the database's clock: a logical time that advances with every identifier
DbClock == Cardinality(uuids)

\* the column default of created_at: the database's clock at the insert
DefaultCreatedAt(t) == [null |-> FALSE, t |-> t]

\* INSERT INTO orders (id, symbol, side, qty, status) VALUES (...)
InsertRow(l, t) ==
    [id |-> l.order_id, symbol |-> l.symbol, side |-> l.side, qty |-> l.qty,
     status |-> "accepted", created_at |-> DefaultCreatedAt(t)]

\* a variant whose rows outlive a failed commit
EndTransactionNoRollback(table, rows, committed) == table \cup rows

\* the end of the transaction: conn.commit() makes its rows part of the
\* table; an exception inside the with-block rolls them back, and a commit
\* that raises has not been applied
EndTransaction(table, rows, committed) ==
    IF committed THEN table \cup rows ELSE table

\* the cap on identifiers: those handed out and those about to be
IdsLeft ==
    Cardinality(uuids) + Cardinality({q \in Tasks : pc[q] = "co_uuid"}) < MaxIds

\* a variant that opens the connection before it validates
create_order_connect_first(p, symbolIn, sideIn, qty) ==
    /\ Serving /\ pc[p] = "idle"
    /\ LET r == [op |-> "create_order", symbol |-> symbolIn, side |-> sideIn, qty |-> qty]
           symbol == Upper(symbolIn)
           side == Lower(sideIn)
           detail == ValidationDetail(symbol, side, qty)
           c == db_connect(db_dsn_or_empty(envDb), dbUp) IN
         IF ~c.ok
         THEN Respond(p, r, c.raised)
         ELSE IF detail # ""
         THEN Respond(p, r, HttpException(400, detail))
         ELSE /\ Cardinality(uuids) + Cardinality({q \in Tasks : pc[q] = "co_uuid"}) < MaxIds
              /\ Goto(p, r, "co_uuid",
                      [symbol |-> symbol, side |-> side, qty |-> qty,
                       order_id |-> NonexistentId], {})
    /\ UNCHANGED <<CONFIG, boot, envRequired, envDb, dbUp, orders, uuids>>

\* symbol.upper(), side.lower() and the validation
create_order(p, symbolIn, sideIn, qty) ==
    /\ Serving /\ pc[p] = "idle"
    /\ LET r == [op |-> "create_order", symbol |-> symbolIn, side |-> sideIn, qty |-> qty]
           symbol == Upper(symbolIn)
           side == Lower(sideIn)
           detail == ValidationDetail(symbol, side, qty) IN
         IF detail # ""
         THEN Respond(p, r, HttpException(400, detail))
         ELSE /\ IdsLeft
              /\ Goto(p, r, "co_uuid",
                      [symbol |-> symbol, side |-> side, qty |-> qty,
                       order_id |-> NonexistentId], {})
    /\ UNCHANGED <<CONFIG, boot, envRequired, envDb, dbUp, orders, uuids>>

\* order_id = str(uuid.uuid4())
CreateOrderId(p) ==
    /\ Serving /\ pc[p] = "co_uuid"
    /\ \E id \in uuid4(uuids) :
         /\ uuids' = uuids \cup {id}
         /\ Goto(p, req[p], "co_connect", [local[p] EXCEPT !.order_id = id], {})
    /\ UNCHANGED <<CONFIG, boot, envRequired, envDb, dbUp, orders>>

\* with db_connect() as conn
CreateOrderConnect(p) ==
    /\ Serving /\ pc[p] = "co_connect"
    /\ LET c == db_connect(db_dsn_or_empty(envDb), dbUp) IN
         IF c.ok THEN Goto(p, req[p], "co_insert", local[p], {})
         ELSE Respond(p, req[p], c.raised)
    /\ UNCHANGED <<CONFIG, boot, envRequired, envDb, dbUp, orders, uuids>>

\* cur.execute(INSERT ...): the row joins the open transaction, or the
\* driver raises and the with-block rolls back
CreateOrderInsert(p) ==
    /\ Serving /\ pc[p] = "co_insert"
    /\ IF dbUp
       THEN Goto(p, req[p], "co_commit", local[p], {InsertRow(local[p], DbClock)})
       ELSE Respond(p, req[p], unhandled_exception(OperationalError))
    /\ UNCHANGED <<CONFIG, boot, envRequired, envDb, dbUp, orders, uuids>>

\* conn.commit(), then the log line and the return
CreateOrderCommit(p) ==
    /\ Serving /\ pc[p] = "co_commit"
    /\ orders' = EndTransaction(orders, txn[p], dbUp)
    /\ IF dbUp
       THEN Respond(p, req[p],
                    Returns([order_id |-> local[p].order_id, status |-> "accepted"]))
       ELSE Respond(p, req[p], unhandled_exception(OperationalError))
    /\ UNCHANGED <<CONFIG, boot, envRequired, envDb, dbUp, uuids>>

\* ---------------------------------------------------------- /orders/{id}
\* row[5].isoformat() if row[5] else None
IsoFormat(ts) ==
    IF ts.null THEN [null |-> TRUE, iso |-> 0] ELSE [null |-> FALSE, iso |-> ts.t]

\* float(row[3])
ToFloat(x) == x

\* SELECT ... FROM orders WHERE id = %s
SelectById(table, id) == {row \in table : row.id = id}

\* a variant that reads symbol and side from each other's column
OrderBodyShifted(row) ==
    [order_id |-> row.id, symbol |-> row.side, side |-> row.symbol,
     qty |-> ToFloat(row.qty), status |-> row.status,
     created_at |-> IsoFormat(row.created_at)]

\* the dict get_order returns for a row
OrderBody(row) ==
    [order_id |-> row.id, symbol |-> row.symbol, side |-> row.side,
     qty |-> ToFloat(row.qty), status |-> row.status,
     created_at |-> IsoFormat(row.created_at)]

\* with db_connect() as conn
get_order(p, id) ==
    /\ Serving /\ pc[p] = "idle"
    /\ LET r == [op |-> "get_order", order_id |-> id]
           c == db_connect(db_dsn_or_empty(envDb), dbUp) IN
         IF c.ok THEN Goto(p, r, "go_select", [order_id |-> id], {})
         ELSE Respond(p, r, c.raised)
    /\ UNCHANGED <<CONFIG, boot, envRequired, envDb, dbUp, orders, uuids>>

\* what get_order answers once the select has run on a table: not found
\* when no row matches, else the dict of the row fetchone() hands back
GetOrderAnswers(table, id) ==
    IF SelectById(table, id) = {} THEN {HttpException(404, "order_not_found")}
    ELSE {Returns(OrderBody(row)) : row \in SelectById(table, id)}

\* cur.execute(SELECT ...), cur.fetchone() and the rest of the handler; the
\* driver raises when the database has stopped answering
GetOrderSelect(p) ==
    /\ Serving /\ pc[p] = "go_select"
    /\ IF ~dbUp THEN Respond(p, req[p], unhandled_exception(OperationalError))
       ELSE \E answer \in GetOrderAnswers(orders, local[p].order_id) :
              Respond(p, req[p], answer)
    /\ UNCHANGED <<CONFIG, boot, envRequired, envDb, dbUp, orders, uuids>>

\* ------------------------------------------------------------------- next
\* the steps by which a create_order or a get_order in flight goes on
OrderSteps(p) ==
    \/ CreateOrderId(p)
    \/ CreateOrderConnect(p)
    \/ CreateOrderInsert(p)
    \/ CreateOrderCommit(p)
    \/ GetOrderSelect(p)

Environment ==
    \/ DbFails
    \/ DbRecovers

\* the order service under concurrent requests
NextOrders ==
    \/ Environment
    \/ \E p \in Tasks, in \in OrderInputs : create_order(p, in[1], in[2], in[3])
    \/ \E p \in Tasks, id \in IdInputs : get_order(p, id)
    \/ \E p \in Tasks : OrderSteps(p)
    \/ \E p \in Tasks : health(p)
    \/ \E p \in Tasks : ready(p)
    \/ \E p \in Tasks : ReadyQuery(p)
    \/ \E p \in Tasks : version(p)
    \/ \E p \in Tasks, s \in PriceInputs : price(p, s)

\* the service once startup() has loaded the configuration
InitServing ==
    /\ CONFIG = load_config_or_die(TRUE)
    /\ boot = "up"
    /\ envRequired = TRUE
    /\ envDb \in BOOLEAN
    /\ dbUp \in BOOLEAN
    /\ orders = {}
    /\ uuids = {}
    /\ pc = [p \in Tasks |-> "idle"]
    /\ req = [p \in Tasks |-> NoReq]
    /\ local = [p \in Tasks |-> NoLocal]
    /\ txn = [p \in Tasks |-> {}]
    /\ resp = [p \in Tasks |-> NoResp]

SpecOrders == InitServing /\ [][NextOrders]_vars

\* one client sending one request after another, with every input
Client == "t1"

NextInputs ==
    \/ Environment
    \/ \E s \in SymbolInputs, sd \in SideInputs, q \in QtyInputs :
         create_order(Client, s, sd, q)
    \/ \E id \in IdInputs : get_order(Client, id)
    \/ OrderSteps(Client)
    \/ \E s \in SymbolInputs : price(Client, s)

SpecInputs == InitServing /\ [][NextInputs]_vars

\* the probes, from before startup on
NextProbes ==
    \/ startup
    \/ Environment
    \/ \E p \in Tasks : health(p)
    \/ \E p \in Tasks : ready(p)
    \/ \E p \in Tasks : ReadyQuery(p)
    \/ \E p \in Tasks : version(p)

SpecProbes == Init /\ [][NextProbes]_vars


\* ======================================================================
\* Properties of the order service's validation (under SpecInputs)
\* ======================================================================
\* a create_order request whose handler has returned or raised
CreateDone(p) == req[p].op = "create_order" /\ pc[p] = "idle"

SymbolOk(r) == Upper(r.symbol) \in {BTC, ETH}
SideOk(r) == Lower(r.side) \in {buy, sell}
QtyRejected(r) == FloatLe(r.qty, F(0))
PassesChecks(r) == SymbolOk(r) /\ SideOk(r) /\ ~QtyRejected(r)

\* C1: every persisted order row has symbol in {BTC, ETH}, side in
\* {buy, sell}, qty > 0 and status 'accepted'; no row is persisted for an
\* input that fails one of the three validation checks.
C1_PersistedRowsValid ==
    \A row \in orders :
        /\ row.symbol \in {BTC, ETH}
        /\ row.side \in {buy, sell}
        /\ FloatGt(row.qty, F(0))
        /\ row.status = "accepted"

\* C2: on the upper-cased symbol and the lower-cased side, create_order
\* reports the first failing check in the order symbol, side, qty:
\* 'unsupported_symbol' whenever the symbol is not BTC or ETH, whatever the
\* side and qty; else 'invalid_side' whenever the side is not buy or sell,
\* whatever the qty; else 'invalid_qty' whenever qty <= 0; and no
\* validation error when all three checks pass.
C2_FirstFailingReason ==
    \A p \in Tasks :
        req[p].op = "create_order" =>
            /\ ~SymbolOk(req[p]) =>
                 pc[p] = "idle" /\ resp[p] = HttpException(400, "unsupported_symbol")
            /\ SymbolOk(req[p]) /\ ~SideOk(req[p]) =>
                 pc[p] = "idle" /\ resp[p] = HttpException(400, "invalid_side")
            /\ SymbolOk(req[p]) /\ SideOk(req[p]) /\ QtyRejected(req[p]) =>
                 pc[p] = "idle" /\ resp[p] = HttpException(400, "invalid_qty")
            /\ PassesChecks(req[p]) => resp[p].status # 400

\* an input failing all three checks was answered with the symbol's reason
C2_Witness ==
    \E p \in Tasks :
        /\ CreateDone(p)
        /\ ~SymbolOk(req[p]) /\ ~SideOk(req[p]) /\ QtyRejected(req[p])
        /\ resp[p] = HttpException(400, "unsupported_symbol")

\* C10: a create_order whose input fails validation takes no step against
\* the store: it is answered at once with its 400 reason, whether the
\* database is reachable, unreachable or unconfigured, never with a 503.
C10_ValidationBeforeStore ==
    \A p \in Tasks :
        (req[p].op = "create_order" /\ ~PassesChecks(req[p])) =>
            /\ pc[p] = "idle"
            /\ txn[p] = {}
            /\ resp[p].status = 400
            /\ resp[p].detail \in {"unsupported_symbol", "invalid_side", "invalid_qty"}

\* an invalid input got its 400 while the database was unconfigured
C10_Witness ==
    \E p \in Tasks :
        /\ CreateDone(p) /\ ~PassesChecks(req[p])
        /\ ~envDb
        /\ resp[p].status = 400

\* ======================================================================
\* Properties of the probes (under SpecProbes)
\* ======================================================================
\* a step in which task p's ready() returns or raises
ReadyCompletes(p) ==
    /\ pc'[p] = "idle" /\ req'[p].op = "ready"
    /\ <<pc[p], req[p], resp[p]>> # <<pc'[p], req'[p], resp'[p]>>

\* C7: ready() answers ready=true only if CONFIG was loaded and the
\* dependency check of that very call passed; it answers 503 whenever CONFIG
\* was never loaded and whenever the dependency check fails with CONFIG
\* loaded; it changes no application state, and its answer is decided by
\* the environment it runs in.
C7_ReadyOnlyIfConfigAndDb ==
    [][\A p \in Tasks :
         ReadyCompletes(p) =>
            /\ resp'[p].status \in {200, 503}
            /\ resp'[p].status = 200 <=> (CONFIG = "loaded" /\ envDb /\ dbUp)
            /\ resp'[p].status = 200 => resp'[p].body.ready
            /\ CONFIG = "None" => resp'[p] = HttpException(503, "config_not_loaded")
            /\ (CONFIG = "loaded" /\ ~envDb) =>
                 resp'[p] = HttpException(503, "db_config_missing")
            /\ (CONFIG = "loaded" /\ envDb /\ ~dbUp) =>
                 resp'[p] = HttpException(503, "db_unreachable:" \o OperationalError)
            /\ UNCHANGED <<CONFIG, boot, envRequired, envDb, dbUp, orders, uuids>>]_vars

\* ready() said not ready because the database was down, CONFIG being loaded
C7_Witness ==
    \E p \in Tasks :
        /\ req[p].op = "ready" /\ pc[p] = "idle"
        /\ CONFIG = "loaded" /\ envDb
        /\ resp[p] = HttpException(503, "db_unreachable:" \o OperationalError)

\* a ready() that has got past the CONFIG check and whose db_ping returned
PingReturned(p) ==
    /\ req[p].op = "ready" /\ pc[p] = "idle"
    /\ resp[p] # HttpException(503, "config_not_loaded")

\* C8 as stated: db_ping never raises and returns (false, "config_missing")
\* when the settings are absent, (true, "ok") when the query succeeds and
\* (false, "unreachable:<cause-tag>") on any failure.
C8_ReasonsAsStated ==
    \A p \in Tasks :
        PingReturned(p) =>
            \/ resp[p] = Returns(ReadyBody)
            \/ resp[p] = HttpException(503, "config_missing")
            \/ resp[p] = HttpException(503, "unreachable:" \o OperationalError)

\* C8 as amended: db_ping never raises; it returns
\* (false, "db_config_missing") when the settings are absent, without
\* opening a connection; (true, "ok") when the query succeeds; and
\* (false, "db_unreachable:<exception type>") on any failure.
C8_PingReasons ==
    \A p \in Tasks :
        /\ pc[p] = "rd_query" => envDb
        /\ PingReturned(p) =>
             /\ resp[p].status # 500
             /\ ~envDb => resp[p] = HttpException(503, "db_config_missing")
             /\ envDb =>
                  \/ resp[p] = Returns(ReadyBody)
                  \/ resp[p] = HttpException(503, "db_unreachable:" \o OperationalError)

\* db_ping failed on the connection or the query and said so in its tuple
C8_Witness ==
    \E p \in Tasks :
        /\ PingReturned(p)
        /\ resp[p] = HttpException(503, "db_unreachable:" \o OperationalError)

\* ======================================================================
\* Properties of the order service under concurrent requests (SpecOrders)
\* ======================================================================
CreatedOk(p) == CreateDone(p) /\ resp[p].status = 200

\* a step in which task p's create_order ends after validation
CreateEnds(p) ==
    pc[p] \in {"co_connect", "co_insert", "co_commit"} /\ pc'[p] = "idle"

\* a step in which task p's get_order returns or raises
GetCompletes(p) ==
    /\ pc'[p] = "idle" /\ req'[p].op = "get_order"
    /\ <<pc[p], req[p], resp[p]>> # <<pc'[p], req'[p], resp'[p]>>

\* the order a get_order answer must carry for the create_order of task p
IsOrderOf(answer, p) ==
    /\ answer.status = 200
    /\ answer.body.order_id = resp[p].body.order_id
    /\ answer.body.symbol = Upper(req[p].symbol)
    /\ answer.body.side = Lower(req[p].side)
    /\ FloatEq(answer.body.qty, req[p].qty)
    /\ answer.body.status = "accepted"

\* C3: when persistence is unavailable during a valid create_order (settings
\* missing, connection refused, or the backend failing during the insert or
\* the commit), the call ends with 503 'db_config_missing' or
\* 'db_unreachable', never another status, and leaves no row of its own.
C3_UnavailableIs503 ==
    [][\A p \in Tasks :
         (CreateEnds(p) /\ resp'[p].status # 200) =>
            /\ \/ resp'[p] = HttpException(503, "db_config_missing")
               \/ resp'[p] = HttpException(503, "db_unreachable")
            /\ SelectById(orders', local[p].order_id) = {}]_vars

C5_OneRowPerCreate ==
    [][/\ orders \subseteq orders'
       /\ orders' # orders =>
            \E p \in Tasks :
               /\ pc[p] = "co_commit" /\ pc'[p] = "idle"
               /\ resp'[p].status = 200
               /\ \E row \in orders' \ orders :
                    /\ orders' = orders \cup {row}
                    /\ DOMAIN row = {"id", "symbol", "side", "qty", "status", "created_at"}
                    /\ row.id = resp'[p].body.order_id
                    /\ row.symbol = local[p].symbol /\ row.side = local[p].side
                    /\ row.qty = local[p].qty /\ row.status = "accepted"
       /\ \A p \in Tasks :
            (CreateEnds(p) /\ resp'[p].status = 200) =>
               Cardinality(orders') = Cardinality(orders) + 1]_vars

\* one create_order has added its row, another has ended in an error
C5_Witness ==
    \E p, q \in Tasks :
        /\ CreatedOk(p)
        /\ CreateDone(q) /\ resp[q].status = 500
        /\ Cardinality(orders) = 1

\* C6: get_order's outcome is decided by the store: 503 when it cannot be
\* reached, also when it fails during the select; 404 'order_not_found' when
\* it is reachable and holds no such row; the stored order when it holds one.
C6_OutcomeByStore ==
    [][\A p \in Tasks :
         GetCompletes(p) =>
            LET id == req'[p].order_id
                reachable == envDb /\ dbUp IN
              /\ ~reachable => resp'[p].status = 503
              /\ reachable => resp'[p] \in GetOrderAnswers(orders, id)
              /\ (reachable /\ SelectById(orders, id) = {}) =>
                   resp'[p] = HttpException(404, "order_not_found")
              /\ (reachable /\ SelectById(orders, id) # {}) =>
                   resp'[p].status = 200]_vars

\* C9: two concurrent create_order calls with distinct valid inputs both
\* succeed while the store is reachable, with two distinct identifiers, and
\* get_order on each identifier gives that call's own order.
C9_ConcurrentCreates ==
    /\ [](\A p, q \in Tasks :
            (p # q /\ CreatedOk(p) /\ CreatedOk(q) /\ req[p] # req[q]) =>
               /\ resp[p].body.order_id # resp[q].body.order_id
               /\ Cardinality(GetOrderAnswers(orders, resp[p].body.order_id)) = 1
               /\ \A answer \in GetOrderAnswers(orders, resp[p].body.order_id) :
                    IsOrderOf(answer, p))
    /\ [][\A p \in Tasks :
            (CreateEnds(p) /\ envDb /\ dbUp) => resp'[p].status = 200]_vars

\* both tasks hold the identifier of their own order, the inputs differing
C9_Witness ==
    \E p, q \in Tasks :
        /\ p # q /\ CreatedOk(p) /\ CreatedOk(q)
        /\ req[p] # req[q]

====
